---- MODULE Spec2Model ----
(***************************************************************************)
(* UnpkgFS: a read-only filesystem over the unpkg CDN, with an optional    *)
(* "download the tarball" mode that serves a whole package from an         *)
(* in-memory store.  Paths, URLs and archive entry names are sequences of  *)
(* one-character strings, so that the regular expressions and string       *)
(* operations of the source are modelled by what they do.                  *)
(***************************************************************************)
EXTENDS Integers, Sequences, FiniteSets, TLC

\* an absent string
None == "none"

\* an absent record or number (numbers are held as [value |-> n])
Nil == [nil |-> TRUE]

Num(n) == [value |-> n]

(***************************************************************************)
(* Characters and the two character classes of the package-name grammar.   *)
(***************************************************************************)
Letters ==
    {"a","b","c","d","e","f","g","h","i","j","k","l","m",
     "n","o","p","q","r","s","t","u","v","w","x","y","z"}

Digits == {"0","1","2","3","4","5","6","7","8","9"}

\* [a-z0-9-~]
FirstChar == Letters \cup Digits \cup {"-", "~"}

\* [a-z0-9-._~]
RestChar == FirstChar \cup {".", "_"}

\* the string needle occurs in s at position i
OccursAt(s, needle, i) ==
    /\ i + Len(needle) - 1 <= Len(s)
    /\ \A k \in 1..Len(needle) : s[i + k - 1] = needle[k]

RECURSIVE RunEnd(_, _)
\* index of the last character of the greedy run [a-z0-9-._~]* that continues
\* after position j
RunEnd(s, j) ==
    IF j + 1 <= Len(s) /\ s[j + 1] \in RestChar THEN RunEnd(s, j + 1) ELSE j

\* [a-z0-9-~][a-z0-9-._~]* matched at position i: index of its last
\* character, 0 when it does not match there
NameEnd(s, i) ==
    IF i <= Len(s) /\ s[i] \in FirstChar THEN RunEnd(s, i) ELSE 0

\* end of the group ((@name\/)?name) of both parse functions, matched right
\* after the leading "/"; 0 when the path does not match
PackageSegmentEnd(path) ==
    IF Len(path) < 2 \/ path[1] # "/" THEN 0
    ELSE IF path[2] = "@"
         THEN LET e == NameEnd(path, 3) IN
              IF e > 0 /\ e + 1 <= Len(path) /\ path[e + 1] = "/"
              THEN NameEnd(path, e + 2)
              ELSE 0
         ELSE NameEnd(path, 2)

parsePackageName(path) ==
    LET n == PackageSegmentEnd(path) IN
    IF n > 0 THEN SubSeq(path, 2, n) ELSE None

parsePackageNameAndVersion(path) ==
    LET n == PackageSegmentEnd(path) IN
    IF n > 0 /\ n + 1 <= Len(path) /\ path[n + 1] = "@" /\ NameEnd(path, n + 2) > 0
    THEN [packageName |-> SubSeq(path, 2, n),
          version |-> SubSeq(path, n + 2, NameEnd(path, n + 2))]
    ELSE Nil

\* the scope pattern with the "/node_modules" group taken as required
IsScopePath_NodeModulesOnly(path) ==
    LET prefix == <<"/","n","o","d","e","_","m","o","d","u","l","e","s">> IN
    \E i \in 1..Len(path) :
        /\ OccursAt(path, prefix \o <<"/", "@">>, i)
        /\ i + Len(prefix) + 2 <= Len(path)
        /\ path[i + Len(prefix) + 2] \in FirstChar

\* /(\/node_modules)?(\/)(@[a-z0-9-~][a-z0-9-._~]*)/.test(path): the pattern
\* is not anchored, so it matches "/@x" anywhere in the path
IsScopePath(path) ==
    \E i \in 1..Len(path) :
        /\ path[i] = "/"
        /\ i + 2 <= Len(path)
        /\ path[i + 1] = "@"
        /\ path[i + 2] \in FirstChar

(***************************************************************************)
(* String operations.                                                      *)
(***************************************************************************)
\* String.prototype.replace(needle, ''): the first occurrence is removed
RemoveFirst(s, needle) ==
    LET hits == {i \in 1..Len(s) : OccursAt(s, needle, i)} IN
    IF hits = {} \/ needle = <<>> THEN s
    ELSE LET i == CHOOSE h \in hits : \A g \in hits : h <= g IN
         SubSeq(s, 1, i - 1) \o SubSeq(s, i + Len(needle), Len(s))

\* path.replace(`/${packageName}`, '') || '/'
StripPackage(path, packageName) ==
    LET rest == RemoveFirst(path, <<"/">> \o packageName) IN
    IF rest = <<>> THEN <<"/">> ELSE rest

\* file.path.replace(/^\//, '')
StripLeadingSlash(s) ==
    IF Len(s) >= 1 /\ s[1] = "/" THEN Tail(s) ELSE s

RECURSIVE SplitFrom(_, _, _, _)
\* s.split('/') without the empty parts
SplitFrom(s, i, cur, acc) ==
    IF i > Len(s) THEN (IF cur = <<>> THEN acc ELSE Append(acc, cur))
    ELSE IF s[i] = "/"
         THEN SplitFrom(s, i + 1, <<>>, IF cur = <<>> THEN acc ELSE Append(acc, cur))
         ELSE SplitFrom(s, i + 1, Append(cur, s[i]), acc)

Segments(s) == SplitFrom(s, 1, <<>>, <<>>)

RECURSIVE NormalizeArray(_, _, _, _)
\* normalizeArray of the path module: "." is dropped, ".." removes the
\* segment before it
NormalizeArray(parts, i, acc, allowAboveRoot) ==
    IF i > Len(parts) THEN acc
    ELSE LET p == parts[i] IN
         IF p = <<".">> THEN NormalizeArray(parts, i + 1, acc, allowAboveRoot)
         ELSE IF p = <<".", ".">>
              THEN IF Len(acc) > 0 /\ acc[Len(acc)] # <<".", ".">>
                   THEN NormalizeArray(parts, i + 1, SubSeq(acc, 1, Len(acc) - 1), allowAboveRoot)
                   ELSE IF allowAboveRoot
                        THEN NormalizeArray(parts, i + 1, Append(acc, p), allowAboveRoot)
                        ELSE NormalizeArray(parts, i + 1, acc, allowAboveRoot)
              ELSE NormalizeArray(parts, i + 1, Append(acc, p), allowAboveRoot)

RECURSIVE JoinSegments(_, _)
JoinSegments(parts, i) ==
    IF i > Len(parts) THEN <<>>
    ELSE IF i = Len(parts) THEN parts[i]
         ELSE parts[i] \o <<"/">> \o JoinSegments(parts, i + 1)

\* path.normalize
normalize(p) ==
    LET isAbs == Len(p) >= 1 /\ p[1] = "/"
        trailing == Len(p) >= 1 /\ p[Len(p)] = "/"
        body == JoinSegments(NormalizeArray(Segments(p), 1, <<>>, ~isAbs), 1)
        body1 == IF body = <<>> /\ ~isAbs THEN <<".">> ELSE body
        body2 == IF body1 # <<>> /\ trailing THEN Append(body1, "/") ELSE body1
    IN  IF isAbs THEN <<"/">> \o body2 ELSE body2

\* path.join(a, b)
join(a, b) ==
    IF a = <<>> /\ b = <<>> THEN <<".">>
    ELSE IF a = <<>> THEN normalize(b)
    ELSE IF b = <<>> THEN normalize(a)
    ELSE normalize(a \o <<"/">> \o b)

(***************************************************************************)
(* Stat records.  A record keeps the file-type bit as "kind" and the       *)
(* permission bits as "mode".                                              *)
(***************************************************************************)
\* size of every synthetic directory record
DirSize == 4096

\* 0o555, the permission bits of every record UnpkgFS builds itself
ReadOnlyMode == 365

\* 0o755, the mode the extractor passes to mkdirSync
ZipDirMode == 493

\* 0o644, the mode the extractor passes to createFile
ZipFileMode == 420

\* 0o777, the mode of the root directory of a fresh InMemory store
ZipRootMode == 511

DirStats == [kind |-> "directory", size |-> DirSize, mode |-> ReadOnlyMode]

FileStats(size) == [kind |-> "file", size |-> size, mode |-> ReadOnlyMode]

Ok(v) == [ok |-> TRUE, value |-> v]

Err(code) == [ok |-> FALSE, code |-> code]

(***************************************************************************)
(* The remote side: the CDN's metadata and content endpoints, the registry *)
(* and the tarballs.  It is the environment of UnpkgFS; what it serves is  *)
(* fixed here, whether a request succeeds is chosen per request.           *)
(***************************************************************************)
PkgA == <<"a">>

PkgScoped == <<"@", "s", "/", "a">>

V1 == <<"1">>

V2 == <<"2">>

RemotePackages == {PkgA, PkgScoped}

\* the version a request without "@version" is redirected to
LatestVersion(name) == V1

RemoteVersions(name) == {V1, V2}

MetaG == [path |-> <<"/", "d", "/", "g">>, type |-> "file", size |-> 2, files |-> <<>>]

MetaD == [path |-> <<"/", "d">>, type |-> "directory", size |-> 0, files |-> <<MetaG>>]

MetaF == [path |-> <<"/", "f">>, type |-> "file", size |-> 3, files |-> <<>>]

MetaH == [path |-> <<"/", "h">>, type |-> "file", size |-> 1, files |-> <<>>]

\* the descriptor of a package's root directory: the whole tree
MetaRoot ==
    [path |-> <<"/">>, type |-> "directory", size |-> 0, files |-> <<MetaF, MetaH, MetaD>>]

MetaNodes == {MetaRoot, MetaF, MetaH, MetaD, MetaG}

\* the descriptor the metadata endpoint returns for the path "rest" inside a
\* package, Nil when the package has no such path
RemoteNode(rest) ==
    LET want == IF rest = <<>> THEN <<"/">> ELSE rest
        hits == {n \in MetaNodes : n.path = want} IN
    IF hits = {} THEN Nil ELSE CHOOSE n \in hits : TRUE

\* what GET {baseUrl}{path}/?meta answers: Nil (a non-success status), or
\* the final URL's pathname after the redirect to the versioned URL and the
\* descriptor
RemoteMeta(path) ==
    LET n == PackageSegmentEnd(path) IN
    IF n = 0 THEN Nil
    ELSE LET name == SubSeq(path, 2, n)
             hasVersion == n + 1 <= Len(path) /\ path[n + 1] = "@"
             vEnd == IF hasVersion THEN NameEnd(path, n + 2) ELSE n
             version == IF hasVersion /\ vEnd > 0 THEN SubSeq(path, n + 2, vEnd)
                        ELSE LatestVersion(name)
             rest == IF vEnd > 0 THEN SubSeq(path, vEnd + 1, Len(path)) ELSE <<"?">>
         IN  IF name \notin RemotePackages \/ version \notin RemoteVersions(name)
                \/ RemoteNode(rest) = Nil
             THEN Nil
             ELSE [url |-> <<"/">> \o name \o <<"@">> \o version \o rest \o <<"/">>,
                   meta |-> RemoteNode(rest)]

\* GET {baseUrl}{path}: the length of the raw content, Nil for a path that
\* has no content; the root of a package serves the package's main file
RemoteFile(path) ==
    LET m == RemoteMeta(path) IN
    IF m = Nil THEN Nil
    ELSE IF m.meta.type = "file" THEN Num(m.meta.size)
    ELSE IF m.meta.path = <<"/">> THEN Num(MetaF.size)
    ELSE Nil

\* dist.unpackedSize as the registry reports it
UnpackedSize(name) == IF name = PkgScoped THEN Num(1) ELSE Num(2)

\* the bytes of an entry: as many as its size, told apart from the bytes of
\* the other entries by the last character of the entry's name
EntryBytes(name, size) == [i \in 1..size |-> name[Len(name)]]

\* the chunks the entry's stream delivers them in
EntryChunks(name, size) ==
    IF size = 0 THEN <<>>
    ELSE IF size = 1 THEN <<EntryBytes(name, size)>>
    ELSE <<SubSeq(EntryBytes(name, size), 1, 1), SubSeq(EntryBytes(name, size), 2, size)>>

\* an entry of the archive: its header and the chunks of its stream
TarEntry(name, type, size) ==
    [name |-> name, type |-> type, size |-> size, chunks |-> EntryChunks(name, size)]

\* the entries of a package's tarball, in stream order
Tarball(name, version) ==
    << TarEntry(<<"p","a","c","k","a","g","e","/","f">>, "file", 3),
       TarEntry(<<"p","a","c","k","a","g","e","/","h">>, "file", 1),
       TarEntry(<<"p","a","c","k","a","g","e","/","d","/","g">>, "file", 2) >>

(***************************************************************************)
(* Maps (the Metadata Index and the Archive Store Registry are JS Maps).   *)
(***************************************************************************)
EmptyMap == [k \in {} |-> Nil]

\* a set that evicts every other key
MapSet_Evicting(m, k, v) == [x \in {k} |-> v]

MapSet(m, k, v) == [x \in DOMAIN m \cup {k} |-> IF x = k THEN v ELSE m[x]]

MapGet(m, k) == IF k \in DOMAIN m THEN m[k] ELSE Nil

(***************************************************************************)
(* parseFileMetaAndSetToIndex: folds a descriptor into the index.  A       *)
(* directory is set under the descriptor's own path field, a file under    *)
(* the path argument, which for a child is join(path, parent.path).        *)
(***************************************************************************)
RECURSIVE FoldMeta(_, _, _)
RECURSIVE FoldFiles(_, _, _, _)
FoldFiles(idx, path, files, i) ==
    IF i > Len(files) THEN idx
    ELSE FoldFiles(FoldMeta(idx, path, files[i]), path, files, i + 1)

FoldMeta(idx, path, fileMeta) ==
    IF fileMeta.type = "directory"
    THEN FoldFiles(MapSet(idx, fileMeta.path, DirStats),
                   join(path, fileMeta.path), fileMeta.files, 1)
    ELSE MapSet(idx, path, FileStats(fileMeta.size))

parseFileMetaAndSetToIndex(idx, path, fileMeta) == FoldMeta(idx, path, fileMeta)

RECURSIVE IndexWrites(_, _)
RECURSIVE ChildWrites(_, _, _)
ChildWrites(path, files, i) ==
    IF i > Len(files) THEN <<>>
    ELSE IndexWrites(path, files[i]) \o ChildWrites(path, files, i + 1)

\* the this._index.set calls of parseFileMetaAndSetToIndex, in the order
\* they are made
IndexWrites(path, fileMeta) ==
    IF fileMeta.type = "directory"
    THEN <<[key |-> fileMeta.path, stats |-> DirStats]>>
         \o ChildWrites(join(path, fileMeta.path), fileMeta.files, 1)
    ELSE <<[key |-> path, stats |-> FileStats(fileMeta.size)]>>

RECURSIVE ApplyWrites(_, _, _)
\* the index after the first n of the writes
ApplyWrites(idx, writes, n) ==
    IF n = 0 THEN idx
    ELSE MapSet(ApplyWrites(idx, writes, n - 1), writes[n].key, writes[n].stats)

(***************************************************************************)
(* The in-memory store an archive is extracted into: its nodes in creation *)
(* order, the root directory first.                                        *)
(***************************************************************************)
StoreNode(path, kind, size, mode) ==
    [path |-> path, kind |-> kind, size |-> size, mode |-> mode, content |-> <<>>]

\* InMemory.create: only the root directory exists; "handler" is the await
\* at which the handler of the archive's last entry stands when it is still
\* running on the store after the extraction's 'finish'
NewStore(name, version, owner) ==
    [name |-> name, version |-> version, owner |-> owner, handler |-> None,
     nodes |-> << StoreNode(<<"/">>, "directory", DirSize, ZipRootMode) >>]

StoreLookup(store, path) ==
    LET hits == {i \in 1..Len(store.nodes) : store.nodes[i].path = path} IN
    IF hits = {} THEN Nil ELSE store.nodes[CHOOSE i \in hits : TRUE]

NodeStats(node) == [kind |-> node.kind, size |-> node.size, mode |-> node.mode]

\* path.dirname
dirname(path) ==
    \* the slashes after the first character that a character other than
    \* "/" follows somewhere: the scan from the end stops at the last of them
    LET cuts == {j \in 2..Len(path) :
                    /\ path[j] = "/"
                    /\ \E k \in (j + 1)..Len(path) : path[k] # "/"} IN
    IF path = <<>> THEN <<".">>
    ELSE IF cuts = {} THEN (IF path[1] = "/" THEN <<"/">> ELSE <<".">>)
    ELSE LET end == CHOOSE j \in cuts : \A i \in cuts : i <= j IN
         IF path[1] = "/" /\ end = 2 THEN <<"/", "/">>
         ELSE SubSeq(path, 1, end - 1)

\* zipFs.stat(path)
StoreStat(store, path) ==
    LET node == StoreLookup(store, path) IN
    IF node = Nil THEN Err("ENOENT") ELSE Ok(NodeStats(node))

\* zipFs.readdir(path): the names of the directory's entries in creation order
StoreReaddir(store, path) ==
    LET node == StoreLookup(store, path)
        kids == SelectSeq(store.nodes,
                          LAMBDA n : n.path # <<"/">> /\ dirname(n.path) = path)
    IN  IF node = Nil THEN Err("ENOENT")
        ELSE IF node.kind # "directory" THEN Err("ENOTDIR")
        ELSE Ok([i \in 1..Len(kids) |->
                    LET segs == Segments(kids[i].path) IN segs[Len(segs)]])

\* zipFs.openFile(path, flag): a handle carrying the node's stats
StoreOpenFile(store, path) ==
    LET node == StoreLookup(store, path) IN
    IF node = Nil THEN Err("ENOENT")
    ELSE Ok([handle |-> "zip", stats |-> NodeStats(node), length |-> node.size])

(***************************************************************************)
(* The archive extractor.                                                  *)
(***************************************************************************)
\* process.cwd(), which path.resolve falls back to for a relative path
Cwd == <<"/", "w">>

RECURSIVE SplitAllFrom(_, _, _, _)
\* s.split('/'), empty parts included
SplitAllFrom(s, i, cur, acc) ==
    IF i > Len(s) THEN Append(acc, cur)
    ELSE IF s[i] = "/" THEN SplitAllFrom(s, i + 1, <<>>, Append(acc, cur))
         ELSE SplitAllFrom(s, i + 1, Append(cur, s[i]), acc)

SplitAll(s) == SplitAllFrom(s, 1, <<>>, <<>>)

IsAbsolute(p) == Len(p) >= 1 /\ p[1] = "/"

DropTrailingSlash(p) ==
    IF Len(p) > 1 /\ p[Len(p)] = "/" THEN SubSeq(p, 1, Len(p) - 1) ELSE p

\* path.resolve(parentDir, childDir)
resolve(parentDir, childDir) ==
    LET from == IF IsAbsolute(childDir) THEN childDir
                ELSE IF IsAbsolute(parentDir) THEN parentDir \o <<"/">> \o childDir
                ELSE Cwd \o <<"/">> \o parentDir \o <<"/">> \o childDir
    IN  DropTrailingSlash(normalize(from))

\* zipFs.mkdirSync(dir, mode) and the first step of zipFs.createFile: the
\* error code, or "ok" with the node added
StoreCreate(store, path, kind, size, mode) ==
    LET parent == StoreLookup(store, dirname(path)) IN
    IF StoreLookup(store, path) # Nil THEN [code |-> "EEXIST", store |-> store]
    ELSE IF ~IsAbsolute(path) \/ parent = Nil THEN [code |-> "ENOENT", store |-> store]
    ELSE IF parent.kind # "directory" THEN [code |-> "ENOTDIR", store |-> store]
    ELSE [code |-> "ok",
          store |-> [store EXCEPT !.nodes = Append(@, StoreNode(path, kind, size, mode))]]

RECURSIVE MkdirReduce(_, _, _, _, _)
\* the reduce of mkdirRecursiveSync over targetDir.split('/')
MkdirReduce(store, parts, i, parentDir, targetDir) ==
    IF i > Len(parts) THEN [ok |-> TRUE, store |-> store]
    ELSE LET curDir == resolve(parentDir, parts[i])
             r == StoreCreate(store, curDir, "directory", DirSize, ZipDirMode)
             caughtErr == r.code \in {"EACCES", "EPERM", "EISDIR"}
         IN  IF r.code \in {"ok", "EEXIST"}
             THEN MkdirReduce(r.store, parts, i + 1, curDir, targetDir)
             ELSE IF r.code = "ENOENT" THEN [ok |-> FALSE, store |-> store]
             ELSE IF ~caughtErr \/ curDir = resolve(<<>>, targetDir)
                  THEN [ok |-> FALSE, store |-> store]
                  ELSE MkdirReduce(store, parts, i + 1, curDir, targetDir)

mkdirRecursiveSync(store, targetDir) ==
    MkdirReduce(store, SplitAll(targetDir), 1,
                IF IsAbsolute(targetDir) THEN <<"/">> ELSE <<>>, targetDir)

WrapperName == <<"p", "a", "c", "k", "a", "g", "e">>

RECURSIVE Concat(_)
\* Buffer.concat(chunks)
Concat(chunks) ==
    IF chunks = <<>> THEN <<>> ELSE Head(chunks) \o Concat(Tail(chunks))

\* file.write(content, 0, content.length)
StoreWrite(store, path, content) ==
    [store EXCEPT !.nodes =
        [i \in 1..Len(@) |->
            IF @[i].path = path
            THEN [@[i] EXCEPT !.content = content, !.size = Len(content)]
            ELSE @[i]]]

\* header.name.replace(/^package/, '')
NormalizedPath(name) ==
    IF OccursAt(name, WrapperName, 1)
    THEN SubSeq(name, Len(WrapperName) + 1, Len(name))
    ELSE name

\* the synchronous start of the 'entry' handler: the directories named by
\* the entry, made by mkdirRecursiveSync before the handler waits
ExtractMkdirInto(store, header) ==
    LET normalizedPath == NormalizedPath(header.name) IN
    IF header.type = "directory"
    THEN mkdirRecursiveSync(store, normalizedPath)
    ELSE mkdirRecursiveSync(store, dirname(normalizedPath))

\* zipFs.createFile(normalizedPath, 'w', 0o644) at its return: the empty
\* file in the store, or the failure
ExtractCreateInto(store, header) ==
    LET f == StoreCreate(store, NormalizedPath(header.name), "file", 0, ZipFileMode) IN
    [ok |-> f.code = "ok", store |-> f.store]

\* the 'entry' handler of the extraction from its start to next(): the store
\* after the entry, or the failure handed to next(err)
ExtractEntryInto(store, header) ==
    LET d == ExtractMkdirInto(store, header) IN
    IF ~d.ok \/ header.type = "directory" THEN d
    ELSE LET r == ExtractCreateInto(d.store, header) IN
         IF ~r.ok THEN r
         ELSE [ok |-> TRUE,
               store |-> StoreWrite(r.store, NormalizedPath(header.name),
                                    Concat(header.chunks))]

(***************************************************************************)
(* Configuration.                                                          *)
(***************************************************************************)
\* the largest packageSizeThreshold that is tried
MaxThreshold == 2

\* the names the filter predicate answers true for, per choice of filter
FilterChoices == {{}, {PkgA}}

DownloadZipChoices ==
    [filter : FilterChoices,
     packageSizeThreshold : {Nil} \cup {Num(n) : n \in 1..MaxThreshold}]

OptionChoices ==
    {[downloadZip |-> Nil]} \cup {[downloadZip |-> dz] : dz \in DownloadZipChoices}

\* the policy with the size test taken as "at least the threshold"
Policy_AtLeast(opts, packageName, packageMeta) ==
    LET dz == opts.downloadZip IN
    \/ packageName \in dz.filter
    \/ /\ dz.packageSizeThreshold # Nil
       /\ packageMeta.unpackedSize # Nil
       /\ packageMeta.unpackedSize.value # 0
       /\ packageMeta.unpackedSize.value >= dz.packageSizeThreshold.value

\* the condition under which fetchFileMeta downloads the tarball
Policy(opts, packageName, packageMeta) ==
    LET dz == opts.downloadZip IN
    \/ packageName \in dz.filter
    \/ /\ dz.packageSizeThreshold # Nil
       /\ packageMeta.unpackedSize # Nil
       /\ packageMeta.unpackedSize.value # 0
       /\ packageMeta.unpackedSize.value > dz.packageSizeThreshold.value

(***************************************************************************)
(* State.                                                                  *)
(***************************************************************************)
\* the number of calls that can be in flight at once
NumCalls == 2

Calls == 1..NumCalls

P_root == <<"/">>
P_scope == <<"/", "@", "s">>
P_scoped == <<"/", "@", "s", "/", "a">>
P_scoped_f == <<"/", "@", "s", "/", "a", "/", "f">>
P_a == <<"/", "a">>
P_a_f == <<"/", "a", "/", "f">>
P_a_d == <<"/", "a", "/", "d">>
P_a1_f == <<"/", "a", "@", "1", "/", "f">>
P_a2_f == <<"/", "a", "@", "2", "/", "f">>

\* the paths the callers ask for
UserPaths == {P_root, P_scope, P_scoped, P_scoped_f, P_a, P_a_f, P_a_d, P_a1_f}

\* the paths asked for when calls run concurrently
ConcPaths == {P_a_f, P_a1_f, P_a2_f}

VARIABLES
    options,          \* this.options, fixed at construction
    index,            \* this._index: path -> stat record
    packagesOfZipFs,  \* this._packagesOfZipFs: package key -> store
    calls,            \* the calls in flight: position, locals, outcome
    arg,              \* the argument a function is applied to on its own
    ret               \* what the function returned for it

vars == <<options, index, packagesOfZipFs, calls, arg, ret>>

\* the variables no operation of UnpkgFS touches
pure == <<arg, ret>>

\* a call slot that has not been used; "trailer" says whether end-of-archive
\* blocks follow the last entry of the archive the call extracts; "fetched",
\* "zipAtStart" (the store found registered at the start, as it is while the
\* call runs and as it was when the call ended), "indexAtStart", "built",
\* "retry" and "decided" (the package keys the caller of the slot has had
\* the policy evaluated for) record what has happened
IdleCall ==
    [pc |-> "idle", op |-> None, path |-> <<>>,
     fileMeta |-> Nil, parsed |-> Nil, packageMeta |-> Nil,
     zipFs |-> Nil, entry |-> 0, trailer |-> TRUE, content |-> Nil,
     result |-> Nil, served |-> None, cause |-> None,
     fetched |-> {}, zipAtStart |-> Nil, indexAtStart |-> Nil,
     built |-> FALSE, retry |-> FALSE, decided |-> {}]

Init ==
    /\ options \in OptionChoices
    /\ index = EmptyMap
    /\ packagesOfZipFs = EmptyMap
    /\ calls = [c \in Calls |-> IdleCall]
    /\ arg = Nil
    /\ ret = Nil

Free(c) == calls[c].pc \in {"idle", "done"}

\* the store registered for the package the path names, if any
ZipFor(registry, path) ==
    LET packageName == parsePackageName(path) IN
    IF packageName = None THEN Nil ELSE MapGet(registry, packageName)

\* the record of a call that starts now in slot c
Fresh(c, op, path) ==
    [IdleCall EXCEPT
        !.op = op, !.path = path,
        !.zipAtStart = ZipFor(packagesOfZipFs, path),
        !.indexAtStart = MapGet(index, path),
        !.decided = calls[c].decided,
        !.retry = /\ calls[c].pc = "done"
                  /\ calls[c].op = op
                  /\ calls[c].path = path
                  /\ calls[c].cause # None]

\* the call is over: its locals are dropped, its outcome is kept
Over(rec) ==
    [rec EXCEPT !.pc = "done", !.fileMeta = Nil, !.zipFs = Nil, !.entry = 0,
                !.trailer = TRUE, !.content = Nil]

Done(rec, served, result) ==
    [Over(rec) EXCEPT !.served = served, !.result = result]

Failed(rec, code, cause) ==
    [Over(rec) EXCEPT !.result = Err(code), !.cause = cause]

(***************************************************************************)
(* stat, readdir and openFile up to their first await.                     *)
(***************************************************************************)
\* stat that looks into the index before it looks into the registry
StatSync_IndexFirst(idx, registry, path) ==
    IF path = <<"/">> THEN [served |-> "root", result |-> Ok(DirStats)]
    ELSE IF IsScopePath(path) THEN [served |-> "scope", result |-> Ok(DirStats)]
    ELSE IF path \in DOMAIN idx THEN [served |-> "index", result |-> Ok(idx[path])]
    ELSE IF ZipFor(registry, path) # Nil
         THEN [served |-> "archive",
               result |-> StoreStat(ZipFor(registry, path),
                                    StripPackage(path, parsePackageName(path)))]
    ELSE [served |-> "remote", result |-> Nil]

\* stat(path) before its fetch: who serves the path, and the outcome when
\* no fetch is needed
StatSync(idx, registry, path) ==
    IF path = <<"/">> THEN [served |-> "root", result |-> Ok(DirStats)]
    ELSE IF IsScopePath(path) THEN [served |-> "scope", result |-> Ok(DirStats)]
    ELSE IF ZipFor(registry, path) # Nil
         THEN [served |-> "archive",
               result |-> StoreStat(ZipFor(registry, path),
                                    StripPackage(path, parsePackageName(path)))]
    ELSE IF path \in DOMAIN idx THEN [served |-> "index", result |-> Ok(idx[path])]
    ELSE [served |-> "remote", result |-> Nil]

\* readdir without the registry lookup
ReaddirSync_NoArchive(registry, path) ==
    IF path = <<"/">> THEN [served |-> "root", result |-> Ok(<<>>)]
    ELSE IF IsScopePath(path) THEN [served |-> "scope", result |-> Ok(<<>>)]
    ELSE [served |-> "remote", result |-> Nil]

\* readdir(path) before its fetch
ReaddirSync(registry, path) ==
    IF path = <<"/">> THEN [served |-> "root", result |-> Ok(<<>>)]
    ELSE IF IsScopePath(path) THEN [served |-> "scope", result |-> Ok(<<>>)]
    ELSE IF ZipFor(registry, path) # Nil
         THEN [served |-> "archive",
               result |-> StoreReaddir(ZipFor(registry, path),
                                       StripPackage(path, parsePackageName(path)))]
    ELSE [served |-> "remote", result |-> Nil]

\* openFile(path) before its fetch
OpenFileSync(registry, path) ==
    IF ZipFor(registry, path) # Nil
    THEN [served |-> "archive",
          result |-> StoreOpenFile(ZipFor(registry, path),
                                   StripPackage(path, parsePackageName(path)))]
    ELSE [served |-> "remote", result |-> Nil]

\* the call has looked a store up and awaits its answer
AwaitZip(rec, zipFs) == [rec EXCEPT !.pc = "awaitZip", !.zipFs = zipFs]

\* the call goes on to fetchFileMeta, awaits the store it has found, or is
\* over
AfterSync(rec, sync) ==
    IF sync.result = Nil
    THEN [rec EXCEPT !.pc = "fetchMeta", !.fetched = @ \cup {"meta"}]
    ELSE IF sync.served = "archive" THEN AwaitZip(rec, rec.zipAtStart)
    ELSE Done(rec, sync.served, sync.result)

Stat(c, path) ==
    /\ Free(c)
    /\ calls' = [calls EXCEPT ![c] =
                    AfterSync(Fresh(c, "stat", path),
                              StatSync(index, packagesOfZipFs, path))]
    /\ UNCHANGED <<pure, options, index, packagesOfZipFs>>

Readdir(c, path) ==
    /\ Free(c)
    /\ calls' = [calls EXCEPT ![c] =
                    AfterSync(Fresh(c, "readdir", path),
                              ReaddirSync(packagesOfZipFs, path))]
    /\ UNCHANGED <<pure, options, index, packagesOfZipFs>>

OpenFile(c, path) ==
    /\ Free(c)
    /\ LET sync == OpenFileSync(packagesOfZipFs, path)
           rec == Fresh(c, "openFile", path) IN
       calls' = [calls EXCEPT ![c] =
                    IF sync.result = Nil
                    THEN [rec EXCEPT !.pc = "fetchFile", !.fetched = @ \cup {"file"}]
                    ELSE AwaitZip(rec, rec.zipAtStart)]
    /\ UNCHANGED <<pure, options, index, packagesOfZipFs>>

(***************************************************************************)
(* fetchFile and the stat that openFile runs after it.                     *)
(***************************************************************************)
\* new NoSyncFile(this, path, flag, stats, content)
NoSyncFile(stats, content) ==
    [handle |-> "nosync", stats |-> stats, length |-> content.value]

\* what fetchFile throws when the response is not ok, and when the fetch or
\* the body read throws: the ENOENT thrown in the try block is caught by the
\* catch of the same function
FetchFileStatusError == "EBUSY"

FetchFileTransportError == "EBUSY"

FetchFileResponse(c) ==
    /\ calls[c].pc = "fetchFile"
    /\ \/ calls' = [calls EXCEPT ![c] =
                       Failed(@, FetchFileStatusError, "file:status")]
       \/ calls' = [calls EXCEPT ![c] =
                       Failed(@, FetchFileTransportError, "file:transport")]
       \/ /\ RemoteFile(calls[c].path) # Nil
          /\ calls' = [calls EXCEPT ![c] =
                          [@ EXCEPT !.pc = "gotFile",
                                    !.content = RemoteFile(calls[c].path)]]
    /\ UNCHANGED <<pure, options, index, packagesOfZipFs>>

\* openFile: await this.stat(path), up to the stat's fetch
OpenFileStat(c) ==
    /\ calls[c].pc = "gotFile"
    /\ LET sync == StatSync(index, packagesOfZipFs, calls[c].path)
           rec == calls[c] IN
       calls' = [calls EXCEPT ![c] =
                    IF sync.result = Nil
                    THEN [rec EXCEPT !.pc = "fetchMeta", !.fetched = @ \cup {"meta"}]
                    ELSE IF sync.served = "archive"
                    THEN AwaitZip(rec, ZipFor(packagesOfZipFs, rec.path))
                    ELSE IF sync.result.ok
                    THEN Done(rec, sync.served,
                              Ok(NoSyncFile(sync.result.value, rec.content)))
                    ELSE Done(rec, sync.served, sync.result)]
    /\ UNCHANGED <<pure, options, index, packagesOfZipFs>>

\* what the store the call holds answers: to stat, readdir and openFile
\* themselves, and to the stat that openFile runs after its fetch
ZipAnswer(rec) ==
    LET sub == StripPackage(rec.path, parsePackageName(rec.path)) IN
    CASE rec.op = "stat" -> StoreStat(rec.zipFs, sub)
      [] rec.op = "readdir" -> StoreReaddir(rec.zipFs, sub)
      [] rec.op = "openFile" /\ rec.content = Nil -> StoreOpenFile(rec.zipFs, sub)
      [] OTHER ->
            LET stats == StoreStat(rec.zipFs, sub) IN
            IF stats.ok THEN Ok(NoSyncFile(stats.value, rec.content)) ELSE stats

\* return await zipFs.stat / readdir / openFile: the store has answered
ZipReturn(c) ==
    /\ calls[c].pc = "awaitZip"
    /\ calls' = [calls EXCEPT ![c] = Done(@, "archive", ZipAnswer(calls[c]))]
    /\ UNCHANGED <<pure, options, index, packagesOfZipFs>>

(***************************************************************************)
(* fetchFileMeta: the metadata fetch, the policy, the build of the store.  *)
(***************************************************************************)
\* what fetchFileMeta throws when the response is not ok, and on any other
\* failure: everything thrown in its try block, the ENOENT included, is
\* caught by its catch and replaced by EIO
FetchMetaStatusError == "EIO"

FetchMetaTransportError == "EIO"

RegistryKey(parsed) == parsed.packageName \o <<"@">> \o parsed.version

\* fetchFileMeta that records a failed lookup in the index
FetchMetaResponse_CachesFailure(c) ==
    /\ calls[c].pc = "fetchMeta"
    /\ \/ /\ calls' = [calls EXCEPT ![c] = Failed(@, "EIO", "meta:status")]
          /\ index' = MapSet(index, calls[c].path, FileStats(0))
       \/ /\ RemoteMeta(calls[c].path) # Nil
          /\ calls' = [calls EXCEPT ![c] =
                [@ EXCEPT !.pc = "gotMeta",
                          !.fileMeta = RemoteMeta(calls[c].path).meta,
                          !.parsed = parsePackageNameAndVersion(
                                         RemoteMeta(calls[c].path).url)]]
          /\ index' = index
    /\ UNCHANGED <<pure, options, packagesOfZipFs>>

\* the response of the metadata fetch has arrived and its JSON is parsed
FetchMetaResponse(c) ==
    /\ calls[c].pc = "fetchMeta"
    /\ \/ calls' = [calls EXCEPT ![c] =
                       Failed(@, FetchMetaStatusError, "meta:status")]
       \/ calls' = [calls EXCEPT ![c] =
                       Failed(@, FetchMetaTransportError, "meta:transport")]
       \/ /\ RemoteMeta(calls[c].path) # Nil
          /\ LET res == RemoteMeta(calls[c].path)
                 parsed == parsePackageNameAndVersion(res.url)
                 rec == [calls[c] EXCEPT !.fileMeta = res.meta, !.parsed = parsed]
             IN  calls' = [calls EXCEPT ![c] =
                    IF /\ parsed # Nil
                       /\ options.downloadZip # Nil
                       /\ MapGet(packagesOfZipFs, RegistryKey(parsed)) = Nil
                    THEN [rec EXCEPT !.pc = "fetchReg",
                                     !.fetched = @ \cup {"registry"}]
                    ELSE [rec EXCEPT !.pc = "gotMeta"]]
    /\ UNCHANGED <<pure, options, index, packagesOfZipFs>>

\* the response of fetchPackageMetaFromRegistry has arrived; the registry
\* may or may not report dist.unpackedSize
FetchRegistryResponse(c) ==
    /\ calls[c].pc = "fetchReg"
    /\ \/ calls' = [calls EXCEPT ![c] = Failed(@, "EIO", "registry:status")]
       \/ calls' = [calls EXCEPT ![c] = Failed(@, "EIO", "registry:transport")]
       \/ \E size \in {UnpackedSize(calls[c].parsed.packageName), Nil} :
            LET packageMeta == [name |-> calls[c].parsed.packageName,
                                version |-> calls[c].parsed.version,
                                unpackedSize |-> size]
                rec == [calls[c] EXCEPT
                           !.packageMeta = packageMeta,
                           !.decided = @ \cup {RegistryKey(calls[c].parsed)}]
            IN  calls' = [calls EXCEPT ![c] =
                    IF Policy(options, calls[c].parsed.packageName, packageMeta)
                    THEN [rec EXCEPT !.pc = "fetchTar",
                                     !.fetched = @ \cup {"tarball"}]
                    ELSE [rec EXCEPT !.pc = "gotMeta"]]
    /\ UNCHANGED <<pure, options, index, packagesOfZipFs>>

\* a failed tarball fetch after which the call goes on per file
FetchTarballResponse_FallsBack(c) ==
    /\ calls[c].pc = "fetchTar"
    /\ \/ calls' = [calls EXCEPT ![c] =
                       [@ EXCEPT !.pc = "gotMeta", !.cause = "tarball:status"]]
       \/ calls' = [calls EXCEPT ![c] =
                       [@ EXCEPT !.pc = "extract", !.entry = 1,
                                 !.zipFs = NewStore(calls[c].parsed.packageName,
                                                    calls[c].parsed.version, c)]]
    /\ UNCHANGED <<pure, options, index, packagesOfZipFs>>

\* the response of the tarball fetch has arrived
FetchTarballResponse(c) ==
    /\ calls[c].pc = "fetchTar"
    /\ \/ calls' = [calls EXCEPT ![c] = Failed(@, "EIO", "tarball:status")]
       \/ calls' = [calls EXCEPT ![c] = Failed(@, "EIO", "tarball:transport")]
       \/ calls' = [calls EXCEPT ![c] =
                       [@ EXCEPT !.pc = "extract", !.entry = 1,
                                 !.zipFs = NewStore(calls[c].parsed.packageName,
                                                    calls[c].parsed.version, c)]]
    /\ UNCHANGED <<pure, options, index, packagesOfZipFs>>

TarballOf(rec) == Tarball(rec.parsed.packageName, rec.parsed.version)

\* the awaits of the entry handler: of the entry's stream (for await), of
\* zipFs.createFile, of file.write, of file.sync and of file.close
HandlerPcs ==
    {"extractRead", "extractCreate", "extractWrite", "extractSync", "extractClose"}

\* the positions of a call whose archive is being extracted: between two
\* entries, or in the handler of an entry
ExtractPcs == {"extract"} \cup HandlerPcs

\* extract.on('entry'): the handler of the next entry is entered and waits
\* for the entry's stream.  With the last entry the parser comes to the end
\* of the archive, end-of-archive blocks or none.
ExtractEntry(c) ==
    /\ calls[c].pc = "extract"
    /\ calls[c].entry <= Len(TarballOf(calls[c]))
    /\ \E trailer \in IF calls[c].entry = Len(TarballOf(calls[c])) THEN BOOLEAN ELSE {TRUE} :
          calls' = [calls EXCEPT ![c] =
                       [@ EXCEPT !.pc = "extractRead", !.trailer = trailer]]
    /\ UNCHANGED <<pure, options, index, packagesOfZipFs>>

\* for await (const chunk of stream) is over: the handler makes the
\* directories; a directory entry is over with that, for a file the handler
\* calls zipFs.createFile and waits
ExtractRead(c) ==
    /\ calls[c].pc = "extractRead"
    /\ LET header == TarballOf(calls[c])[calls[c].entry]
           d == ExtractMkdirInto(calls[c].zipFs, header) IN
       calls' = [calls EXCEPT ![c] =
                    IF ~d.ok THEN Failed(@, "EIO", "extract:entry")
                    ELSE IF header.type = "directory"
                    THEN [@ EXCEPT !.zipFs = d.store, !.pc = "extract", !.entry = @ + 1]
                    ELSE [@ EXCEPT !.zipFs = d.store, !.pc = "extractCreate"]]
    /\ UNCHANGED <<pure, options, index, packagesOfZipFs>>

\* await zipFs.createFile(normalizedPath, 'w', 0o644): the store answers
ExtractCreate(c) ==
    /\ calls[c].pc = "extractCreate"
    /\ LET header == TarballOf(calls[c])[calls[c].entry]
           r == ExtractCreateInto(calls[c].zipFs, header) IN
       calls' = [calls EXCEPT ![c] =
                    IF ~r.ok THEN Failed(@, "EIO", "extract:entry")
                    ELSE [@ EXCEPT !.zipFs = r.store, !.pc = "extractWrite"]]
    /\ UNCHANGED <<pure, options, index, packagesOfZipFs>>

\* await file.write(content, 0, content.length)
ExtractWrite(c) ==
    /\ calls[c].pc = "extractWrite"
    /\ LET header == TarballOf(calls[c])[calls[c].entry] IN
       calls' = [calls EXCEPT ![c] =
                    [@ EXCEPT !.pc = "extractSync",
                              !.zipFs = StoreWrite(@, NormalizedPath(header.name),
                                                   Concat(header.chunks))]]
    /\ UNCHANGED <<pure, options, index, packagesOfZipFs>>

\* await file.sync()
ExtractSync(c) ==
    /\ calls[c].pc = "extractSync"
    /\ calls' = [calls EXCEPT ![c] = [@ EXCEPT !.pc = "extractClose"]]
    /\ UNCHANGED <<pure, options, index, packagesOfZipFs>>

\* await file.close(), next(): the next entry may come
ExtractClose(c) ==
    /\ calls[c].pc = "extractClose"
    /\ calls' = [calls EXCEPT ![c] = [@ EXCEPT !.pc = "extract", !.entry = @ + 1]]
    /\ UNCHANGED <<pure, options, index, packagesOfZipFs>>

\* extract.on('error'): the stream fails
ExtractError(c) ==
    /\ calls[c].pc \in ExtractPcs
    /\ calls' = [calls EXCEPT ![c] = Failed(@, "EIO", "extract:stream")]
    /\ UNCHANGED <<pure, options, index, packagesOfZipFs>>

\* a registration that keeps the store a key already has
Register_KeepFirst(registry, parsed, zipFs) ==
    LET keep(m, k) == IF k \in DOMAIN m THEN m ELSE MapSet(m, k, zipFs) IN
    keep(keep(registry, parsed.packageName), RegistryKey(parsed))

\* the two this._packagesOfZipFs.set calls
Register(registry, parsed, zipFs) ==
    MapSet(MapSet(registry, parsed.packageName, zipFs), RegistryKey(parsed), zipFs)

\* the extractor has emitted 'finish': every entry has been handed to the
\* handler and the stream has ended.  The parser does not read the
\* end-of-archive blocks before the handler of the last entry has called
\* next(); an archive that ends without them finishes while that handler is
\* still at one of its awaits, the one of the entry's stream included when
\* the entry has data.
FinishReached(rec) ==
    \/ rec.pc = "extract" /\ rec.entry > Len(TarballOf(rec))
    \/ /\ rec.pc \in HandlerPcs
       /\ rec.entry = Len(TarballOf(rec))
       /\ ~rec.trailer
       /\ rec.pc = "extractRead" => TarballOf(rec)[rec.entry].size > 0

\* extract.on('finish'): the store is registered and fetchFileMeta returns;
\* a handler that is still running goes on with the registered store
ExtractFinish(c) ==
    /\ FinishReached(calls[c])
    /\ LET zipFs == [calls[c].zipFs EXCEPT
                        !.handler = IF calls[c].pc \in HandlerPcs
                                    THEN calls[c].pc ELSE None] IN
       packagesOfZipFs' = Register(packagesOfZipFs, calls[c].parsed, zipFs)
    /\ calls' = [calls EXCEPT ![c] =
                    [@ EXCEPT !.pc = "gotMeta", !.built = TRUE, !.zipFs = Nil,
                              !.entry = 0, !.trailer = TRUE]]
    /\ UNCHANGED <<pure, options, index>>

\* the stores that the registry or a call that awaits an answer refers to
LiveStores ==
    {packagesOfZipFs[k] : k \in DOMAIN packagesOfZipFs}
        \cup {calls[c].zipFs : c \in {d \in Calls : calls[d].pc = "awaitZip"}}

\* the next await of the handler of the archive's last entry returns; a
\* failure of the handler ends it, next(err) coming after 'finish'
HandlerStep(store) ==
    LET entries == Tarball(store.name, store.version)
        header == entries[Len(entries)] IN
    CASE store.handler = "extractRead" ->
            LET d == ExtractMkdirInto(store, header) IN
            [d.store EXCEPT !.handler = IF d.ok /\ header.type # "directory"
                                        THEN "extractCreate" ELSE None]
      [] store.handler = "extractCreate" ->
            LET r == ExtractCreateInto(store, header) IN
            [r.store EXCEPT !.handler = IF r.ok THEN "extractWrite" ELSE None]
      [] store.handler = "extractWrite" ->
            [StoreWrite(store, NormalizedPath(header.name), Concat(header.chunks))
                EXCEPT !.handler = "extractSync"]
      [] store.handler = "extractSync" -> [store EXCEPT !.handler = "extractClose"]
      [] OTHER -> [store EXCEPT !.handler = None]

\* one reference to a store: the store itself when it is the one that changes
Touch(ref, old, new) == IF ref = old THEN new ELSE ref

\* the handler of the last entry goes on after 'finish': what it does to the
\* store shows wherever the store is referred to
ExtractLate ==
    \E store \in LiveStores :
        /\ store.handler # None
        /\ LET new == HandlerStep(store) IN
           /\ packagesOfZipFs' = [k \in DOMAIN packagesOfZipFs |->
                                     Touch(packagesOfZipFs[k], store, new)]
           /\ calls' = [c \in Calls |->
                           IF calls[c].pc = "done" THEN calls[c]
                           ELSE [calls[c] EXCEPT
                                    !.zipFs = Touch(@, store, new),
                                    !.zipAtStart = Touch(@, store, new)]]
        /\ UNCHANGED <<pure, options, index>>

(***************************************************************************)
(* stat and readdir after fetchFileMeta has returned.                      *)
(***************************************************************************)
MetaStats(fileMeta) ==
    IF fileMeta.type = "directory" THEN DirStats ELSE FileStats(fileMeta.size)

\* stat after fetchFileMeta has returned: the descriptor is folded into the
\* index and the record is returned, to the caller or to the openFile that
\* awaits it
StatReturn(c) ==
    /\ calls[c].pc = "gotMeta"
    /\ calls[c].op \in {"stat", "openFile"}
    /\ index' = parseFileMetaAndSetToIndex(index, calls[c].path, calls[c].fileMeta)
    /\ calls' = [calls EXCEPT ![c] =
                    IF calls[c].op = "stat"
                    THEN Done(@, "remote", Ok(MetaStats(calls[c].fileMeta)))
                    ELSE [@ EXCEPT !.pc = "gotStat"]]
    /\ UNCHANGED <<pure, options, packagesOfZipFs>>

\* openFile: the stat it awaited has returned, the NoSyncFile is made
OpenFileReturn(c) ==
    /\ calls[c].pc = "gotStat"
    /\ calls' = [calls EXCEPT ![c] =
                    Done(@, "remote",
                         Ok(NoSyncFile(MetaStats(calls[c].fileMeta), calls[c].content)))]
    /\ UNCHANGED <<pure, options, index, packagesOfZipFs>>

\* fileMeta.files?.map(file => file.path.replace(/^\//, '')) ?? []
ListNames(fileMeta) ==
    [i \in 1..Len(fileMeta.files) |-> StripLeadingSlash(fileMeta.files[i].path)]

ReaddirResult(fileMeta) ==
    IF fileMeta.type = "directory" THEN Ok(ListNames(fileMeta)) ELSE Err("ENOTDIR")

\* readdir that folds the descriptor into the index as stat does
ReaddirReturn_FoldsIndex(c) ==
    /\ calls[c].pc = "gotMeta"
    /\ calls[c].op = "readdir"
    /\ index' = parseFileMetaAndSetToIndex(index, calls[c].path, calls[c].fileMeta)
    /\ calls' = [calls EXCEPT ![c] = Done(@, "remote", ReaddirResult(calls[c].fileMeta))]
    /\ UNCHANGED <<pure, options, packagesOfZipFs>>

ReaddirReturn(c) ==
    /\ calls[c].pc = "gotMeta"
    /\ calls[c].op = "readdir"
    /\ calls' = [calls EXCEPT ![c] = Done(@, "remote", ReaddirResult(calls[c].fileMeta))]
    /\ UNCHANGED <<pure, options, index, packagesOfZipFs>>

\* the steps of the call in slot c that follow its start
Continue(c) ==
    \/ FetchFileResponse(c)
    \/ OpenFileStat(c)
    \/ ZipReturn(c)
    \/ FetchMetaResponse(c)
    \/ FetchRegistryResponse(c)
    \/ FetchTarballResponse(c)
    \/ ExtractEntry(c)
    \/ ExtractRead(c)
    \/ ExtractCreate(c)
    \/ ExtractWrite(c)
    \/ ExtractSync(c)
    \/ ExtractClose(c)
    \/ ExtractError(c)
    \/ ExtractFinish(c)
    \/ StatReturn(c)
    \/ OpenFileReturn(c)
    \/ ReaddirReturn(c)

\* one caller that awaits each call before it makes the next
Next ==
    \/ \E path \in UserPaths : Stat(1, path)
    \/ \E path \in UserPaths : Readdir(1, path)
    \/ \E path \in UserPaths : OpenFile(1, path)
    \/ Continue(1)
    \/ ExtractLate

Spec == Init /\ [][Next]_vars

\* NumCalls calls made without awaiting one another
NextConc ==
    \/ \E c \in Calls :
          \/ \E path \in ConcPaths : calls[c].pc = "idle" /\ Stat(c, path)
          \/ \E path \in ConcPaths : calls[c].pc = "idle" /\ Readdir(c, path)
          \/ \E path \in ConcPaths : calls[c].pc = "idle" /\ OpenFile(c, path)
          \/ Continue(c)
    \/ ExtractLate

SpecConc == Init /\ [][NextConc]_vars

(***************************************************************************)
(* The two string functions applied on their own: parsePackageNameAndVersion*)
(* to a pathname, the entry handler to one entry of an archive.            *)
(***************************************************************************)
\* the characters pathnames are made of: one letter of the grammar, the
\* separators, a character that may not start a name and one outside the
\* grammar
PathAlphabet == {"/", "@", "a", ".", "A"}

\* the longest pathname that is tried
MaxPathLen == 7

\* the strings over PathAlphabet of length n
Strings(n) == [1..n -> PathAlphabet]

Pathnames(maxLen) == UNION {Strings(n) : n \in 1..maxLen}

\* the top-level segment of an entry name
Wrappers == {WrapperName, <<"w">>, WrapperName \o <<"s">>}

\* the rest of an entry name
EntryRests == {<<"/", "f">>, <<"/", "a", "/", "b">>, <<"/", "d", "/", "g">>}

EntryNames == {w \o r : w \in Wrappers, r \in EntryRests}

InitPure ==
    /\ options = [downloadZip |-> Nil]
    /\ index = EmptyMap
    /\ packagesOfZipFs = EmptyMap
    /\ calls = [c \in Calls |-> IdleCall]
    /\ arg \in {[pathname |-> p] : p \in Pathnames(MaxPathLen)}
                \cup {[header |-> TarEntry(n, "file", 1)] : n \in EntryNames}
    /\ ret = Nil

\* parsePackageNameAndVersion(new URL(res.url).pathname)
ParsePathname ==
    /\ ret = Nil
    /\ "pathname" \in DOMAIN arg
    /\ ret' = [parsed |-> parsePackageNameAndVersion(arg.pathname)]
    /\ UNCHANGED <<options, index, packagesOfZipFs, calls, arg>>

\* the entry handler run for one entry on a fresh store
ExtractOneEntry ==
    /\ ret = Nil
    /\ "header" \in DOMAIN arg
    /\ ret' = ExtractEntryInto(NewStore(PkgA, V1, 1), arg.header)
    /\ UNCHANGED <<options, index, packagesOfZipFs, calls, arg>>

NextPure == ParsePathname \/ ExtractOneEntry

SpecPure == InitPure /\ [][NextPure]_vars

(***************************************************************************)
(* Properties.                                                             *)
(***************************************************************************)
IsDone(c) == calls[c].pc = "done"

\* what the store answers to the operation
ArchiveAnswer(zip, op, sub) ==
    CASE op = "stat" -> StoreStat(zip, sub)
      [] op = "readdir" -> StoreReaddir(zip, sub)
      [] OTHER -> StoreOpenFile(zip, sub)

\* C1: a stat, readdir or openFile that starts when the package its path
\* names is registered awaits the answer of that store and nothing else: it
\* is served by the archive store and issues no network call of any kind.
C1_RegisteredPackageNeedsNoFetch ==
    \A c \in Calls :
        calls[c].zipAtStart # Nil =>
            /\ \/ calls[c].pc = "awaitZip" /\ calls[c].zipFs = calls[c].zipAtStart
               \/ IsDone(c) /\ calls[c].served = "archive"
            /\ calls[c].fetched = {}
            /\ calls[c].cause = None

\* a stat of /a/f that found the package registered got a file record with
\* size > 0 from the store, with no fetch
C1_Witness ==
    \E c \in Calls :
        /\ IsDone(c)
        /\ calls[c].op = "stat"
        /\ calls[c].path = P_a_f
        /\ calls[c].zipAtStart # Nil
        /\ calls[c].fetched = {}
        /\ calls[c].result.ok
        /\ calls[c].result.value.kind = "file"
        /\ calls[c].result.value.size > 0

AllPaths == UserPaths \cup ConcPaths

StoreRecords(zip) == {NodeStats(zip.nodes[i]) : i \in 1..Len(zip.nodes)}

\* C2: in every reachable state, for a path of a registered package, stat is
\* served by the archive store: what it returns is the record of a node of
\* the store (or the store's error), never the record the index holds for
\* the path; the same holds of every stat that has returned.
C2_ArchiveWinsOverIndex ==
    /\ \A path \in AllPaths :
          (ZipFor(packagesOfZipFs, path) # Nil /\ path # <<"/">> /\ ~IsScopePath(path)) =>
              LET now == StatSync(index, packagesOfZipFs, path) IN
              /\ now.served = "archive"
              /\ now.result.ok =>
                    now.result.value \in StoreRecords(ZipFor(packagesOfZipFs, path))
              /\ path \in DOMAIN index => now.result # Ok(index[path])
    /\ \A c \in Calls :
          (IsDone(c) /\ calls[c].op = "stat" /\ calls[c].zipAtStart # Nil) =>
              /\ calls[c].served = "archive"
              /\ calls[c].result.ok =>
                    calls[c].result.value \in StoreRecords(calls[c].zipAtStart)
              /\ calls[c].indexAtStart # Nil =>
                    calls[c].result # Ok(calls[c].indexAtStart)

\* a stat that was in flight while another call registered the package has
\* put its record into the index, and the path is served by the store
C2_Witness ==
    \E c \in Calls :
        /\ IsDone(c)
        /\ calls[c].op = "stat"
        /\ calls[c].served = "remote"
        /\ calls[c].zipAtStart = Nil
        /\ ~calls[c].built
        /\ options.downloadZip # Nil
        /\ "registry" \notin calls[c].fetched
        /\ calls[c].path \in DOMAIN index
        /\ ZipFor(packagesOfZipFs, calls[c].path) # Nil
        /\ StatSync(index, packagesOfZipFs, calls[c].path).result.ok

\* C3: stat of a file inside a scoped package and readdir of a scoped
\* package are resolved as package paths, not as the synthetic scope
\* directory (stated as the claim has it; the code answers both with the
\* synthetic directory).
C3_ScopedPackageIsAPackage ==
    \A c \in Calls :
        (IsDone(c) /\ calls[c].op \in {"stat", "readdir"}
                   /\ calls[c].path \in {P_scoped, P_scoped_f}) =>
            calls[c].served # "scope"

\* the path with its whole leading segment removed, "/" when nothing is left
WholeSegmentStripped(path) ==
    LET later == {i \in 2..Len(path) : path[i] = "/"} IN
    IF later = {} THEN <<"/">>
    ELSE SubSeq(path, CHOOSE i \in later : \A j \in later : i <= j, Len(path))

\* C4: for a registered package the store is asked for the path with the
\* whole leading package segment stripped, "@version" included (stated as
\* the claim has it; the code leaves "@version/..." in the path).
C4_WholePackageSegmentStripped ==
    \A c \in Calls :
        (IsDone(c) /\ calls[c].zipAtStart # Nil) =>
            calls[c].result =
                ArchiveAnswer(calls[c].zipAtStart, calls[c].op,
                              WholeSegmentStripped(calls[c].path))

\* the root and the scope-only directory
SyntheticPaths == {P_root, P_scope}

\* C5: under every configuration and in every state, a stat or readdir of
\* "/" or of a scope-only path is over at once with a directory record (an
\* empty listing for readdir), issues no network call and leaves the index
\* and the registry unchanged.
C5_SyntheticDirectories ==
    [][\A c \in Calls :
          (/\ Free(c)
           /\ calls'[c] # calls[c]
           /\ calls'[c].path \in SyntheticPaths
           /\ calls'[c].op \in {"stat", "readdir"}) =>
              /\ calls'[c].pc = "done"
              /\ calls'[c].fetched = {}
              /\ calls'[c].result.ok
              /\ calls'[c].op = "stat" => calls'[c].result.value.kind = "directory"
              /\ calls'[c].op = "readdir" => calls'[c].result.value = <<>>
              /\ index' = index
              /\ packagesOfZipFs' = packagesOfZipFs]_vars

\* a stat of the scope-only path has returned while archive mode is on and
\* a package is registered
C5_Witness ==
    \E c \in Calls :
        /\ IsDone(c)
        /\ calls[c].op = "stat"
        /\ calls[c].path = P_scope
        /\ calls[c].result = Ok(DirStats)
        /\ DOMAIN packagesOfZipFs # {}
        /\ DOMAIN index # {}

\* C6: a metadata fetch that gets a non-success status fails the call with
\* ENOENT, one that fails in transport or parsing fails it with EIO (stated
\* as the claim has it; the code answers EIO in both cases).
C6_MetaStatusIsNotFound ==
    \A c \in Calls :
        /\ (IsDone(c) /\ calls[c].cause = "meta:status") =>
              calls[c].result = Err("ENOENT")
        /\ (IsDone(c) /\ calls[c].cause = "meta:transport") =>
              calls[c].result = Err("EIO")

\* C7: a raw content fetch that gets a non-success status fails openFile
\* with ENOENT, any other failure of it with EBUSY (stated as the claim has
\* it; the code answers EBUSY in both cases).
C7_FileStatusIsNotFound ==
    \A c \in Calls :
        /\ (IsDone(c) /\ calls[c].cause = "file:status") =>
              calls[c].result = Err("ENOENT")
        /\ (IsDone(c) /\ calls[c].cause = "file:transport") =>
              calls[c].result = Err("EBUSY")

\* C8: the step in which a call fails because a fetch (metadata, registry,
\* tarball) or the extraction failed changes neither the index nor the
\* registry, and a stat of the same path made next issues a metadata fetch.
C8_FailureIsNotCached ==
    [][\A c \in Calls :
          /\ (calls[c].pc # "done" /\ calls'[c].pc = "done"
                 /\ calls'[c].cause # None) =>
                (index' = index /\ packagesOfZipFs' = packagesOfZipFs)
          /\ (Free(c) /\ calls'[c] # calls[c] /\ calls'[c].op = "stat"
                 /\ calls'[c].retry) =>
                (calls'[c].pc = "fetchMeta" /\ "meta" \in calls'[c].fetched)]_vars

\* a stat made again after it had failed on a fetch has succeeded
C8_Witness ==
    \E c \in Calls :
        /\ IsDone(c)
        /\ calls[c].op = "stat"
        /\ calls[c].retry
        /\ calls[c].served = "remote"
        /\ calls[c].result.ok

\* the name a path has in its directory: its last segment
BaseName(path) == LET segs == Segments(path) IN segs[Len(segs)]

\* C9: a readdir served by the remote descriptor fails with ENOTDIR when the
\* descriptor is a file; when it is a directory it returns one name per
\* child, in the order of the descriptor, each the name the child has in
\* the directory, and none of them "." or ".." (stated as the claim has it;
\* the code returns the path field of each child without its leading "/",
\* which for a directory below the package root names the directories above
\* the child too).
C9_ReaddirOfDescriptor ==
    \A c \in Calls :
        (IsDone(c) /\ calls[c].op = "readdir" /\ calls[c].served = "remote") =>
            LET meta == RemoteMeta(calls[c].path).meta
                res == calls[c].result IN
            IF meta.type = "file" THEN res = Err("ENOTDIR")
            ELSE /\ res.ok
                 /\ Len(res.value) = Len(meta.files)
                 /\ \A i \in 1..Len(meta.files) :
                       /\ res.value[i] = BaseName(meta.files[i].path)
                       /\ res.value[i] \notin {<<".">>, <<".", ".">>}

\* the policy as the specification words it
PolicyHolds(c) ==
    /\ options.downloadZip # Nil
    /\ \/ calls[c].parsed.packageName \in options.downloadZip.filter
       \/ /\ options.downloadZip.packageSizeThreshold # Nil
          /\ calls[c].packageMeta # Nil
          /\ calls[c].packageMeta.unpackedSize # Nil
          /\ calls[c].packageMeta.unpackedSize.value >
                options.downloadZip.packageSizeThreshold.value

\* fetchFileMeta has returned its descriptor to the call
MetaFetched(c) ==
    \/ calls[c].pc \in {"gotMeta", "gotStat"}
    \/ IsDone(c) /\ calls[c].served = "remote" /\ calls[c].cause = None

\* C10: when fetchFileMeta has returned for a package that was not
\* registered, the call has built and registered a store if and only if
\* archive mode is configured and the filter accepts the name or a threshold
\* is set and the reported unpacked size is greater than it; without archive
\* mode no registry or tarball fetch is ever issued and the registry is empty.
C10_ArchiveDecision ==
    /\ \A c \in Calls :
          MetaFetched(c) =>
              /\ calls[c].built <=>
                    ("registry" \in calls[c].fetched /\ PolicyHolds(c))
              /\ calls[c].built =>
                    /\ "tarball" \in calls[c].fetched
                    /\ MapGet(packagesOfZipFs, calls[c].parsed.packageName) # Nil
                    /\ MapGet(packagesOfZipFs, RegistryKey(calls[c].parsed)) # Nil
              /\ "registry" \in calls[c].fetched <=>
                    (options.downloadZip # Nil /\ calls[c].zipAtStart = Nil)
    /\ options.downloadZip = Nil =>
          /\ DOMAIN packagesOfZipFs = {}
          /\ \A c \in Calls : calls[c].fetched \cap {"registry", "tarball"} = {}

\* a store has been built because of the size alone, the filter accepting
\* no name
C10_Witness ==
    \E c \in Calls :
        /\ MetaFetched(c)
        /\ calls[c].built
        /\ options.downloadZip.filter = {}

\* C11: the policy is evaluated at most once for a package key: no call
\* gets the registry's answer, and with it the decision, for a key the
\* caller has had the decision for already (stated as the claim has it; the
\* code fetches the registry metadata and decides again on every metadata
\* fetch for a package that stayed per file).
C11_DecisionEvaluatedOnce ==
    [][\A c \in Calls :
          (calls[c].pc = "fetchReg" /\ calls'[c].pc \in {"fetchTar", "gotMeta"}) =>
              RegistryKey(calls[c].parsed) \notin calls[c].decided]_vars

RECURSIVE TreeNodes(_)
\* the descriptor and every descriptor below it
TreeNodes(fileMeta) ==
    {fileMeta} \cup UNION {TreeNodes(fileMeta.files[i]) : i \in 1..Len(fileMeta.files)}

\* the absolute path of a node of the descriptor that was fetched for
\* "path": the package prefix of "path" followed by the node's path
AbsolutePath(path, fileMeta, node) ==
    LET base == IF fileMeta.path = <<"/">> THEN path
                ELSE SubSeq(path, 1, Len(path) - Len(fileMeta.path)) IN
    IF node.path = <<"/">> THEN base ELSE base \o node.path

\* C12: after a stat served by a metadata fetch has returned, the index
\* holds every node of the descriptor under the node's own absolute path,
\* directories as directory records and files as file records with their
\* size (stated as the claim has it; the code records a directory under its
\* package-relative path and a file under its parent's path).
C12_EveryNodeUnderItsOwnPath ==
    \A c \in Calls :
        (IsDone(c) /\ calls[c].op = "stat" /\ calls[c].served = "remote"
                   /\ calls[c].result.ok) =>
            LET fileMeta == RemoteMeta(calls[c].path).meta IN
            \A node \in TreeNodes(fileMeta) :
                MapGet(index, AbsolutePath(calls[c].path, fileMeta, node))
                    = MetaStats(node)

\* C13: no write to the index replaces the record a path has by a record of
\* another kind or size; the writes of one fold are taken one by one
\* (stated as the claim has it; the code writes all files of a directory
\* under one key, each replacing the record of the one before).
C13_IndexNeverOverwritten ==
    [][\A c \in Calls :
          (calls[c].pc = "gotMeta" /\ calls'[c].pc \in {"done", "gotStat"}
                /\ calls[c].op \in {"stat", "openFile"}) =>
              LET writes == IndexWrites(calls[c].path, calls[c].fileMeta) IN
              \A n \in 1..Len(writes) :
                  LET before == MapGet(ApplyWrites(index, writes, n - 1), writes[n].key) IN
                  before # Nil =>
                      /\ before.kind = writes[n].stats.kind
                      /\ before.size = writes[n].stats.size]_vars

\* readdir of the path would return a listing in the current state
ReaddirLists(path) ==
    LET sync == ReaddirSync(packagesOfZipFs, path) IN
    IF sync.result # Nil THEN sync.result.ok
    ELSE RemoteMeta(path) # Nil /\ RemoteMeta(path).meta.type = "directory"

\* stat of the path would return a record of the kind in the current state
StatKindIs(path, kind) ==
    LET sync == StatSync(index, packagesOfZipFs, path) IN
    IF sync.result # Nil THEN sync.result.ok /\ sync.result.value.kind = kind
    ELSE RemoteMeta(path) # Nil /\ MetaStats(RemoteMeta(path).meta).kind = kind

\* C14: an openFile that returns a handle wraps a file record, a readdir
\* that returns a listing is of a path whose stat record is not a file, and
\* a stat that returns a file record is of a path readdir does not list
\* (stated as the claim has it; the code returns a file record from the
\* index for a directory readdir lists, and a handle on a directory record).
C14_KindIsConsistent ==
    \A c \in Calls :
        (IsDone(c) /\ calls[c].result # Nil /\ calls[c].result.ok) =>
            /\ calls[c].op = "openFile" =>
                  calls[c].result.value.stats.kind = "file"
            /\ calls[c].op = "readdir" =>
                  ~StatKindIs(calls[c].path, "file")
            /\ (calls[c].op = "stat" /\ calls[c].result.value.kind = "file") =>
                  ~ReaddirLists(calls[c].path)

\* a name, scope or version of the grammar: lowercase letters, digits, "-",
\* ".", "_", "~", the first character neither "." nor "_"
IsPart(s) ==
    /\ Len(s) >= 1
    /\ s[1] \in FirstChar
    /\ \A i \in 1..Len(s) : s[i] \in RestChar

\* name, or @scope/name
IsPackageName(s) ==
    \/ IsPart(s)
    \/ /\ Len(s) >= 1
       /\ s[1] = "@"
       /\ \E j \in 2..Len(s) :
             /\ s[j] = "/"
             /\ IsPart(SubSeq(s, 2, j - 1))
             /\ IsPart(SubSeq(s, j + 1, Len(s)))

\* the leading package segment of a path: what stands between the first "/"
\* and the next one, the one after the scope when the segment starts with "@"
LeadingSegment(path) ==
    LET slashes == {i \in 2..Len(path) : path[i] = "/"}
        first == IF slashes = {} THEN Len(path) + 1
                 ELSE CHOOSE i \in slashes : \A j \in slashes : i <= j
        later == {i \in slashes : i > first}
        second == IF later = {} THEN Len(path) + 1
                  ELSE CHOOSE i \in later : \A j \in later : i <= j
    IN  IF Len(path) >= 2 /\ path[2] = "@"
        THEN SubSeq(path, 2, second - 1)
        ELSE SubSeq(path, 2, first - 1)

\* the places at which the segment splits into a name and a version
VersionSplits(seg) ==
    {k \in 1..Len(seg) :
        /\ seg[k] = "@"
        /\ IsPackageName(SubSeq(seg, 1, k - 1))
        /\ IsPart(SubSeq(seg, k + 1, Len(seg)))}

\* C15: parsePackageNameAndVersion returns a match exactly when the path's
\* leading segment is name@version or @scope/name@version of the grammar,
\* and then the name and the version of that segment; otherwise no match
\* (stated as the claim has it; the code matches a prefix of the segment and
\* cuts the version at the first character outside the grammar).
C15_ParsesLeadingSegment ==
    "parsed" \in DOMAIN ret =>
        LET seg == LeadingSegment(arg.pathname)
            splits == IF arg.pathname[1] = "/" THEN VersionSplits(seg) ELSE {} IN
        IF splits = {} THEN ret.parsed = Nil
        ELSE \E k \in splits :
                ret.parsed = [packageName |-> SubSeq(seg, 1, k - 1),
                              version |-> SubSeq(seg, k + 1, Len(seg))]

RECURSIVE ExtractAll(_, _, _)
\* the extraction of the entries from the i-th on: the store after the last
\* of them, or the failure of the first entry that fails, at which the
\* extraction stops
ExtractAll(store, entries, i) ==
    IF i > Len(entries) THEN [ok |-> TRUE, store |-> store]
    ELSE LET r == ExtractEntryInto(store, entries[i]) IN
         IF r.ok THEN ExtractAll(r.store, entries, i + 1) ELSE r

\* the failures of an extraction
ExtractCauses == {"extract:entry", "extract:stream"}

\* C16: every store in the registry holds the whole archive of its package,
\* and a call that is fetching or extracting an archive, or has failed in
\* the extraction, has no store of its own in the registry (stated as the
\* claim has it; the code registers the store on 'finish', which an archive
\* without end-of-archive blocks reaches while the handler of its last
\* entry is still at work on the store).
C16_RegisteredAfterFinish ==
    /\ \A k \in DOMAIN packagesOfZipFs :
          LET zip == packagesOfZipFs[k] IN
          LET all == ExtractAll(NewStore(zip.name, zip.version, zip.owner),
                                Tarball(zip.name, zip.version), 1) IN
          all.ok /\ zip.nodes = all.store.nodes
    /\ \A c \in Calls :
          (calls[c].pc \in {"fetchTar"} \cup ExtractPcs \/ calls[c].cause \in ExtractCauses) =>
              \A k \in DOMAIN packagesOfZipFs : packagesOfZipFs[k].owner # c

\* the failures of a build: of the registry fetch, of the tarball fetch, of
\* the extraction
BuildCauses ==
    {"registry:status", "registry:transport", "tarball:status",
     "tarball:transport"} \cup ExtractCauses

\* C17: the step in which the registry fetch, the tarball fetch or the
\* extraction of a build fails ends the call that triggered the build with
\* an error, although the call holds the descriptor it had fetched, and
\* changes neither the index nor the registry.
C17_BuildFailureFailsTheCall ==
    [][\A c \in Calls :
          (calls[c].cause = None /\ calls'[c].cause \in BuildCauses) =>
              /\ calls[c].fileMeta # Nil
              /\ calls'[c].pc = "done"
              /\ calls'[c].result = Err("EIO")
              /\ calls'[c].served = None
              /\ index' = index
              /\ packagesOfZipFs' = packagesOfZipFs]_vars

\* a stat whose policy triggered has failed on the tarball fetch, and
\* neither the index nor the registry holds anything
C17_Witness ==
    \E c \in Calls :
        /\ IsDone(c)
        /\ calls[c].op = "stat"
        /\ calls[c].cause = "tarball:status"
        /\ calls[c].result = Err("EIO")
        /\ Policy(options, calls[c].parsed.packageName, calls[c].packageMeta)
        /\ index = EmptyMap
        /\ packagesOfZipFs = EmptyMap

\* C18: the step in which a call's extraction finishes maps both keys of
\* its package to the store this call has built, whatever store another
\* call had registered under them before, and leaves the other keys alone.
C18_LastFinisherWins ==
    [][\A c \in Calls :
          (calls[c].pc \in ExtractPcs /\ calls'[c].pc = "gotMeta") =>
              LET keys == {calls[c].parsed.packageName, RegistryKey(calls[c].parsed)} IN
              /\ \A k \in keys :
                    /\ k \in DOMAIN packagesOfZipFs'
                    /\ [packagesOfZipFs'[k] EXCEPT !.handler = None] = calls[c].zipFs
                    /\ packagesOfZipFs'[k].owner = c
              /\ \A k \in DOMAIN packagesOfZipFs \ keys :
                    packagesOfZipFs'[k] = packagesOfZipFs[k]]_vars

\* two calls for the same package have each fetched the descriptor, the
\* registry metadata and the tarball and built a store, both have returned
\* successfully, and the registry holds the store of one of them only
C18_Witness ==
    \E c, d \in Calls :
        /\ c # d
        /\ IsDone(c) /\ IsDone(d)
        /\ calls[c].built /\ calls[d].built
        /\ calls[c].fetched = {"meta", "registry", "tarball"}
        /\ calls[d].fetched = {"meta", "registry", "tarball"}
        /\ calls[c].result.ok /\ calls[d].result.ok
        /\ calls[c].parsed = calls[d].parsed
        /\ \A k \in DOMAIN packagesOfZipFs : packagesOfZipFs[k].owner = d

\* the packages and versions a store can be registered for
PackageVersions ==
    {[packageName |-> name, version |-> version] :
        name \in RemotePackages, version \in {V1, V2}}

\* C19: whenever the key name@version is in the registry, the key name is
\* in it too and both map to the same store (stated as the claim has it; in
\* the code two concurrent builds of two versions leave name@version of the
\* first finisher next to a name that maps to the store of the second).
C19_BothKeysSameStore ==
    \A parsed \in PackageVersions :
        RegistryKey(parsed) \in DOMAIN packagesOfZipFs =>
            /\ parsed.packageName \in DOMAIN packagesOfZipFs
            /\ packagesOfZipFs[parsed.packageName] = packagesOfZipFs[RegistryKey(parsed)]

\* an entry name without its top-level segment
WithoutWrapper(name) ==
    LET slashes == {i \in 1..Len(name) : name[i] = "/"} IN
    IF slashes = {} THEN <<>>
    ELSE SubSeq(name, CHOOSE i \in slashes : \A j \in slashes : i <= j, Len(name))

\* the files of a store
StoreFiles(store) ==
    {store.nodes[i].path : i \in {j \in 1..Len(store.nodes) : store.nodes[j].kind = "file"}}

\* C20: the entry handler stores the entry wrapper/rest at rest, whatever
\* the wrapper is called, and stores nothing else (stated as the claim has
\* it; the code removes the characters "package" from the start of the
\* name and nothing else).
C20_AnyWrapperStripped ==
    "header" \in DOMAIN arg /\ "store" \in DOMAIN ret =>
        /\ ret.ok
        /\ StoreFiles(ret.store) = {WithoutWrapper(arg.header.name)}

\* the directories above a path of a store
Ancestors(path) ==
    {<<"/">>} \cup {SubSeq(path, 1, i - 1) : i \in {j \in 2..Len(path) : path[j] = "/"}}

\* the entry has been handled to its end: its file holds the entry's bytes
\* and every directory above it exists
EntryStored(store, e) ==
    LET node == StoreLookup(store, WithoutWrapper(e.name)) IN
    /\ node # Nil
    /\ node.kind = "file"
    /\ node.content = EntryBytes(e.name, e.size)
    /\ node.size = e.size
    /\ \A a \in Ancestors(WithoutWrapper(e.name)) :
          /\ StoreLookup(store, a) # Nil
          /\ StoreLookup(store, a).kind = "directory"

\* C21: while an archive is extracted, the entries before the current one
\* are in the store as files with their whole content below directories,
\* and nothing of the later entries is in it; the current entry is not in
\* the store before createFile has returned (its directories may be), is
\* an empty file below its directories until the write has returned, and
\* is stored whole from then on; a registered store holds every file entry
\* of its archive whole (stated as the claim has it; in the code the
\* extraction of an archive without end-of-archive blocks is over, and its
\* store registered, before the handler of the last entry is: see C16).
C21_EntriesOneAtATime ==
    /\ \A c \in Calls :
          calls[c].pc \in ExtractPcs =>
              LET entries == TarballOf(calls[c]) IN
              \A j \in 1..Len(entries) :
                  LET node == StoreLookup(calls[c].zipFs, WithoutWrapper(entries[j].name)) IN
                  IF j < calls[c].entry \/ (j = calls[c].entry /\ calls[c].pc \in {"extractSync", "extractClose"})
                  THEN EntryStored(calls[c].zipFs, entries[j])
                  ELSE IF j = calls[c].entry /\ calls[c].pc = "extractWrite"
                  THEN node # Nil /\ node.kind = "file" /\ node.content = <<>>
                  ELSE node = Nil
    /\ \A k \in DOMAIN packagesOfZipFs :
          LET zip == packagesOfZipFs[k]
              entries == Tarball(zip.name, zip.version) IN
          \A j \in 1..Len(entries) : EntryStored(zip, entries[j])

\* C22: a stat made right after a stat of the same path that was served by
\* a metadata fetch and succeeded, the package still having no store, is
\* over at once, served from the index, with no network call and with a
\* record of the same kind and size (stated as the claim has it; the code
\* does not record a directory under the path that was asked for, so the
\* repeated stat of a directory fetches again).
C22_RepeatedStatFromIndex ==
    [][\A c \in Calls :
          (/\ IsDone(c)
           /\ calls[c].op = "stat"
           /\ calls[c].served = "remote"
           /\ calls[c].result.ok
           /\ calls'[c] # calls[c]
           /\ calls'[c].op = "stat"
           /\ calls'[c].path = calls[c].path
           /\ ZipFor(packagesOfZipFs, calls[c].path) = Nil) =>
              /\ calls'[c].pc = "done"
              /\ calls'[c].served = "index"
              /\ calls'[c].fetched = {}
              /\ calls'[c].result.ok
              /\ calls'[c].result.value.kind = calls[c].result.value.kind
              /\ calls'[c].result.value.size = calls[c].result.value.size]_vars

\* C23: no step of a readdir changes the index, and a readdir of a path
\* that is neither the root nor a scope path nor of a registered package
\* starts with a metadata fetch, whether or not the index holds the path.
C23_ReaddirLeavesIndexAlone ==
    [][\A c \in Calls :
          (calls'[c] # calls[c] /\ calls'[c].op = "readdir") =>
              /\ index' = index
              /\ (/\ Free(c)
                  /\ calls'[c].path # <<"/">>
                  /\ ~IsScopePath(calls'[c].path)
                  /\ ZipFor(packagesOfZipFs, calls'[c].path) = Nil) =>
                     /\ calls'[c].pc = "fetchMeta"
                     /\ calls'[c].fetched = {"meta"}]_vars

\* a readdir of a path the index holds has fetched the descriptor and
\* returned the listing of the directory, and the index still holds the
\* file record it held for the path
C23_Witness ==
    \E c \in Calls :
        /\ IsDone(c)
        /\ calls[c].op = "readdir"
        /\ calls[c].served = "remote"
        /\ calls[c].indexAtStart # Nil
        /\ calls[c].fetched = {"meta"}
        /\ calls[c].result.ok
        /\ MapGet(index, calls[c].path) = calls[c].indexAtStart

\* C24: no step removes a key from the index or from the registry.
C24_KeySetsOnlyGrow ==
    [][/\ DOMAIN index \subseteq DOMAIN index'
       /\ DOMAIN packagesOfZipFs \subseteq DOMAIN packagesOfZipFs']_vars

\* the index and the registry both hold keys, written by two calls that
\* were in flight together, the registry both keys of a package
C24_Witness ==
    /\ Cardinality(DOMAIN index) >= 2
    /\ Cardinality(DOMAIN packagesOfZipFs) >= 2
    /\ \E c, d \in Calls :
          /\ c # d
          /\ IsDone(c) /\ IsDone(d)
          /\ calls[c].built
          /\ calls[d].op = "stat" /\ calls[d].served = "remote"

====
